---- MODULE Spec2Model ----
(***************************************************************************)
(* Pronunciation Audio Service (src/server.js): the in-memory audio cache, *)
(* the preload job registry, the setImmediate background passes and the    *)
(* periodic sweep, as a state machine.                                     *)
(*                                                                         *)
(* Scheduling. Node runs every request handler, every setImmediate         *)
(* callback and every setInterval callback to completion on one thread.    *)
(* The preload callback is an async function without any await, so one     *)
(* background pass is one atomic step.  Handlers run in the poll phase of  *)
(* the event loop and the setImmediate callbacks in the check phase that   *)
(* follows it, in the order they were scheduled; timers run only after     *)
(* that, so the sweep never runs while a pass is pending.  Other handlers  *)
(* of the same poll phase may run between a submit and its pass.           *)
(*                                                                         *)
(* A response is what the handler passes to res.status(..).json(..); it is *)
(* an operator of the request and of the state in which the handler runs.  *)
(*                                                                         *)
(* Left out: requestMetrics and /health (they never touch the cache or the *)
(* registry), the ISO `timestamp` strings (never read back), and the       *)
(* responseTime fields.                                                    *)
(***************************************************************************)
EXTENDS Integers, Sequences, FiniteSets, TLC

VARIABLES
    audioCache,     \* Map cacheKey -> record, as the sequence of its entries in insertion order
    preloadQueue,   \* Map preloadId -> preloadData, as a function on the ids present
    immediates,     \* setImmediate callbacks scheduled and not yet run, oldest first
    nextId,         \* number of preload ids handed out by crypto.randomUUID()
    now             \* Date.now()

vars == <<audioCache, preloadQueue, immediates, nextId, now>>

(***************************************************************************)
(* Bounds of the model                                                     *)
(***************************************************************************)

\* AUDIO_CONFIG.MAX_CACHE_SIZE is 1000 in the source; the model runs the same
\* code at a small capacity (the smallest for which floor(capacity * 0.2) >= 1).
MAX_CACHE_SIZE == 5

\* Number of preload jobs accepted in one run.
MaxJobs == 1

(***************************************************************************)
(* AUDIO_CONFIG and the literals of the handlers                           *)
(***************************************************************************)

SUPPORTED_LANGUAGES == {"zh-CN", "zh-TW"}
DEFAULT_LANGUAGE == "zh-CN"
TTS_BASE_URL == "https://translate.google.com/translate_tts"

MAX_TEXT_LENGTH == 100
MAX_PRELOAD_TEXTS == 10
LazyCutoff == 300000
SweepCutoff == 300000

\* The instants Date.now() takes in the model: the start, one retention window
\* later (age = cutoff) and one millisecond after that (age > cutoff).
Times == {0, SweepCutoff, SweepCutoff + 1}

(***************************************************************************)
(* Request inputs                                                          *)
(***************************************************************************)

\* A JavaScript value in the place of `text`: a string is the sequence of its
\* UTF-16 code units, anything else is not a string.
Str(cs) == [type |-> "string", chars |-> cs]
Undefined == [type |-> "undefined", chars |-> <<>>]

NiHao == Str(<<20320, 22909>>)      \* U+4F60 U+597D
Xue == Str(<<23398>>)               \* U+5B66
ExtA == Str(<<13312, 97>>)          \* U+3400 (Extension A) followed by "a"
Hello == Str(<<104, 105>>)          \* "hi"
EmptyText == Str(<<>>)
LongText == Str([i \in 1..(MAX_TEXT_LENGTH + 1) |-> 20320])

ValidTexts == {NiHao, Xue, ExtA}

\* Bodies of POST /audio: every valid text in the default language, one of them
\* in the other supported language and once without a language, and one body
\* for each way to be rejected.
AudioBodies ==
    [text : ValidTexts, language : {"zh-CN"}]
        \cup { [text |-> NiHao, language |-> "zh-TW"],
               [text |-> NiHao, language |-> "undefined"],
               [text |-> NiHao, language |-> "en-US"],
               [text |-> Hello, language |-> "zh-CN"],
               [text |-> EmptyText, language |-> "zh-CN"],
               [text |-> LongText, language |-> "zh-TW"],
               [text |-> Undefined, language |-> "undefined"] }

\* `texts` of a /preload body: an array of values, or something that is no array.
\* The bodies: a batch with a repeated text and no language, a batch in the
\* other language, and one body for each way to be rejected.
Arr(items) == [isArray |-> TRUE, items |-> items]
NotArray == [isArray |-> FALSE, items |-> <<>>]

PreloadBodies ==
    { [texts |-> Arr(<<NiHao, NiHao, Xue>>), language |-> "undefined"],
      [texts |-> Arr(<<ExtA, Xue, NiHao>>), language |-> "zh-TW"],
      [texts |-> Arr(<<>>), language |-> "zh-CN"],
      [texts |-> NotArray, language |-> "zh-CN"],
      [texts |-> Arr([i \in 1..(MAX_PRELOAD_TEXTS + 1) |-> NiHao]), language |-> "zh-CN"],
      [texts |-> Arr(<<NiHao, Hello, Xue>>), language |-> "zh-CN"],
      [texts |-> Arr(<<Xue>>), language |-> "en-US"] }

(***************************************************************************)
(* Helpers of server.js                                                    *)
(***************************************************************************)

\* const { ..., language = AUDIO_CONFIG.DEFAULT_LANGUAGE } = req.body
LanguageOf(body) ==
    IF body.language = "undefined" THEN DEFAULT_LANGUAGE ELSE body.language

\* generateAudioUrl: the TTS locator is built from the text and the language only.
generateAudioUrl(text, language) ==
    [base |-> TTS_BASE_URL, q |-> text.chars, tl |-> language]

\* generateCacheKey: md5 of `${text}-${language}`.  The digest is modelled as the
\* string it is taken of (md5 collisions are not modelled).
generateCacheKey(text, language) ==
    <<text.chars, "-", language>>

\* `/play/${cacheKey}`
PlayRef(cacheKey) == <<"/play/", cacheKey>>

\* isValidChineseText
isValidChineseText(text) ==
    IF text.type # "string" \/ text.chars = <<>>
    THEN FALSE
    ELSE /\ \E i \in 1..Len(text.chars) :
               \/ text.chars[i] \in 19968..40959      \* 一-鿿
               \/ text.chars[i] \in 13312..19903      \* 㐀-䶿
         /\ Len(text.chars) <= MAX_TEXT_LENGTH

(***************************************************************************)
(* The Map audioCache                                                      *)
(***************************************************************************)

CacheKeys(cache) == { cache[i].key : i \in 1..Len(cache) }

\* Map.prototype.has
CacheHas(cache, key) == key \in CacheKeys(cache)

\* Map.prototype.get (of a key that is present)
CacheGet(cache, key) ==
    cache[CHOOSE i \in 1..Len(cache) : cache[i].key = key]

\* Map.prototype.delete
CacheDelete(cache, key) == SelectSeq(cache, LAMBDA e : e.key # key)

\* Map.prototype.set: a present key keeps its place, a new key goes last.
CacheSet(cache, key, value) ==
    LET entry == [key |-> key, value |-> value] IN
    IF CacheHas(cache, key)
    THEN [i \in 1..Len(cache) |-> IF cache[i].key = key THEN entry ELSE cache[i]]
    ELSE Append(cache, entry)

RECURSIVE DeleteFirst(_, _, _)
\* for (let i = 0; i < entriesToRemove; i++) audioCache.delete(entries[i][0])
DeleteFirst(cache, entries, n) ==
    IF n = 0 THEN cache
    ELSE CacheDelete(DeleteFirst(cache, entries, n - 1), entries[n].key)

\* Math.floor(AUDIO_CONFIG.MAX_CACHE_SIZE * 0.2)
EntriesToRemove == (MAX_CACHE_SIZE * 2) \div 10

\* cleanCache with the capacity test `>` in place of `>=`
cleanCacheLate(cache) ==
    IF Len(cache) > MAX_CACHE_SIZE
    THEN DeleteFirst(cache, cache, EntriesToRemove)
    ELSE cache

\* cleanCache removing the newest entries in place of the oldest
cleanCacheNewest(cache) ==
    IF Len(cache) >= MAX_CACHE_SIZE
    THEN SubSeq(cache, 1, Len(cache) - EntriesToRemove)
    ELSE cache

\* cleanCache
cleanCache(cache) ==
    IF Len(cache) >= MAX_CACHE_SIZE
    THEN DeleteFirst(cache, cache, EntriesToRemove)
    ELSE cache

\* The object stored for a (text, language); its timestamp, which no code
\* reads, is left out.
CacheRecord(text, language) ==
    [audioUrl |-> generateAudioUrl(text, language), text |-> text, language |-> language]

\* cleanCache(); audioCache.set(cacheKey, {...})
CacheInsert(cache, text, language) ==
    CacheSet(cleanCache(cache), generateCacheKey(text, language), CacheRecord(text, language))

(***************************************************************************)
(* Initial state: the module-level `new Map()`s                            *)
(***************************************************************************)

EmptyMap == [id \in {} |-> 0]

Init ==
    /\ audioCache = <<>>
    /\ preloadQueue = EmptyMap
    /\ immediates = <<>>
    /\ nextId = 0
    /\ now = 0

(***************************************************************************)
(* POST /audio                                                             *)
(***************************************************************************)

\* What the handler answers in the current state.
AudioResponse(body) ==
    LET text == body.text
        language == LanguageOf(body)
        cacheKey == generateCacheKey(text, language)
    IN  IF ~isValidChineseText(text)
        THEN [code |-> 400, error |-> "Invalid Chinese text provided"]
        ELSE IF language \notin SUPPORTED_LANGUAGES
        THEN [code |-> 400, error |-> "Unsupported language"]
        ELSE IF CacheHas(audioCache, cacheKey)
        THEN [code |-> 200, success |-> TRUE, text |-> text, language |-> language,
              audioUrl |-> PlayRef(cacheKey), cached |-> TRUE]
        ELSE [code |-> 200, success |-> TRUE, text |-> text, language |-> language,
              audioUrl |-> PlayRef(cacheKey), cached |-> FALSE]

\* POST /audio storing the record under the key of the default language
PostAudioDefaultKey(body) ==
    LET text == body.text
        language == LanguageOf(body)
        cacheKey == generateCacheKey(text, language)
    IN  /\ audioCache' =
              IF ~isValidChineseText(text) THEN audioCache
              ELSE IF language \notin SUPPORTED_LANGUAGES THEN audioCache
              ELSE IF CacheHas(audioCache, cacheKey) THEN audioCache
              ELSE CacheSet(cleanCache(audioCache),
                            generateCacheKey(text, DEFAULT_LANGUAGE),
                            CacheRecord(text, language))
        /\ UNCHANGED <<preloadQueue, immediates, nextId, now>>

\* POST /audio refreshing the entry on a hit (least-recently-used order)
PostAudioTouch(body) ==
    LET text == body.text
        language == LanguageOf(body)
        cacheKey == generateCacheKey(text, language)
    IN  /\ audioCache' =
              IF ~isValidChineseText(text) THEN audioCache
              ELSE IF language \notin SUPPORTED_LANGUAGES THEN audioCache
              ELSE IF CacheHas(audioCache, cacheKey)
              THEN Append(CacheDelete(audioCache, cacheKey), CacheGet(audioCache, cacheKey))
              ELSE CacheInsert(audioCache, text, language)
        /\ UNCHANGED <<preloadQueue, immediates, nextId, now>>

\* POST /audio writing the record again on a hit, with the locator of the
\* default language
PostAudioRewriteOnHit(body) ==
    LET text == body.text
        language == LanguageOf(body)
        cacheKey == generateCacheKey(text, language)
    IN  /\ audioCache' =
              IF ~isValidChineseText(text) THEN audioCache
              ELSE IF language \notin SUPPORTED_LANGUAGES THEN audioCache
              ELSE IF CacheHas(audioCache, cacheKey)
              THEN CacheSet(audioCache, cacheKey,
                            [CacheRecord(text, language) EXCEPT
                                !.audioUrl = generateAudioUrl(text, DEFAULT_LANGUAGE)])
              ELSE CacheInsert(audioCache, text, language)
        /\ UNCHANGED <<preloadQueue, immediates, nextId, now>>

\* POST /audio storing the record before it validates the body
PostAudioStoreFirst(body) ==
    LET text == body.text
        language == LanguageOf(body)
        cacheKey == generateCacheKey(text, language)
    IN  /\ audioCache' =
              IF CacheHas(audioCache, cacheKey) THEN audioCache
              ELSE CacheInsert(audioCache, text, language)
        /\ UNCHANGED <<preloadQueue, immediates, nextId, now>>

PostAudio(body) ==
    LET text == body.text
        language == LanguageOf(body)
        cacheKey == generateCacheKey(text, language)
    IN  /\ audioCache' =
              IF ~isValidChineseText(text) THEN audioCache
              ELSE IF language \notin SUPPORTED_LANGUAGES THEN audioCache
              ELSE IF CacheHas(audioCache, cacheKey) THEN audioCache
              ELSE CacheInsert(audioCache, text, language)
        /\ UNCHANGED <<preloadQueue, immediates, nextId, now>>

(***************************************************************************)
(* GET /play/:cacheKey                                                     *)
(***************************************************************************)

\* What the upstream connection of one request delivers, in order: the events
\* the handler registered a callback for ('response', 'error', and the idle
\* timer armed by request.setTimeout, which also runs while the body is read)
\* and "data", a chunk of the body that audioResponse.pipe(res) writes to the
\* client.  request.destroy() before any response makes the request emit
\* 'error' (socket hang up); a socket error emits 'error' on the request after
\* the response began as well.
UpstreamOutcomes ==
    { <<"response", "data">>,
      <<"error">>,
      <<"timeout", "error">>,
      <<"response", "timeout">>,
      <<"response", "data", "timeout">>,
      <<"response", "data", "error">> }

\* Keys a client may ask for: two the service issues, and one it does not.
PlayKeys ==
    { generateCacheKey(NiHao, "zh-CN"), generateCacheKey(ExtA, "zh-TW"), <<<<0>>, "-", "none">> }

\* What a callback hands to res: the status, and the body or the type of it.
PlayAnswer(code, error, details, contentType) ==
    [code |-> code, error |-> error, details |-> details, contentType |-> contentType]

\* The request after https.get(audioUrl, ...) and before any callback: the
\* locators fetched, whether the upstream response is piped to res, the
\* answers written to the client, the answers the callbacks tried to write,
\* whether request.destroy() was called, and whether a callback threw.
PlayStarted(audioUrl) ==
    [fetched |-> <<audioUrl>>, piped |-> FALSE, sent |-> <<>>, attempts |-> <<>>,
     aborted |-> FALSE, uncaught |-> FALSE]

\* res.status(code).json(body): once the head of an answer is sent, setting a
\* header throws, and nothing catches what a callback throws.
PlayJson(play, answer) ==
    IF play.sent # <<>>
    THEN [play EXCEPT !.attempts = Append(@, answer), !.uncaught = TRUE]
    ELSE [play EXCEPT !.attempts = Append(@, answer), !.sent = <<answer>>]

\* The callback of one event.
PlayEvent(play, event) ==
    IF play.uncaught THEN play
    ELSE CASE event = "response" ->
                  \* res.setHeader(...) three times, audioResponse.pipe(res)
                  [play EXCEPT !.piped = TRUE]
           [] event = "data" ->
                  IF play.piped /\ play.sent = <<>>
                  THEN [play EXCEPT
                           !.attempts = Append(@, PlayAnswer(200, "", "", "audio/mpeg")),
                           !.sent = <<PlayAnswer(200, "", "", "audio/mpeg")>>]
                  ELSE play
           [] event = "error" ->
                  PlayJson(play, PlayAnswer(500, "Failed to retrieve audio", "error.message",
                                            "application/json"))
           [] event = "timeout" ->
                  \* request.destroy(); res.status(504).json(...)
                  PlayJson([play EXCEPT !.aborted = TRUE],
                           PlayAnswer(504, "Audio request timed out", "", "application/json"))

RECURSIVE PlayEvents(_, _, _)
PlayEvents(play, events, n) ==
    IF n = 0 THEN play
    ELSE PlayEvent(PlayEvents(play, events, n - 1), events[n])

\* The whole exchange of one GET /play/:cacheKey in the current state.  After
\* the lookup the handler and its callbacks touch nothing but req and res.
PlayResponse(cacheKey, upstream) ==
    IF ~CacheHas(audioCache, cacheKey)
    THEN [fetched |-> <<>>, piped |-> FALSE,
          sent |-> <<PlayAnswer(404, "Audio not found", "", "application/json")>>,
          attempts |-> <<PlayAnswer(404, "Audio not found", "", "application/json")>>,
          aborted |-> FALSE, uncaught |-> FALSE]
    ELSE PlayEvents(PlayStarted(CacheGet(audioCache, cacheKey).value.audioUrl),
                    upstream, Len(upstream))

\* GET /play dropping the record of a key whose upstream failed
GetPlayDropOnFailure(cacheKey, upstream) ==
    /\ cacheKey \in PlayKeys
    /\ upstream \in UpstreamOutcomes
    /\ audioCache' =
           IF CacheHas(audioCache, cacheKey)
                  /\ PlayResponse(cacheKey, upstream).sent[1].code # 200
           THEN CacheDelete(audioCache, cacheKey)
           ELSE audioCache
    /\ UNCHANGED <<preloadQueue, immediates, nextId, now>>

GetPlay(cacheKey, upstream) ==
    /\ cacheKey \in PlayKeys
    /\ upstream \in UpstreamOutcomes
    /\ UNCHANGED vars

(***************************************************************************)
(* POST /preload                                                           *)
(***************************************************************************)

\* A validation that looks at the first text of the batch only
PreloadRejectionFirstText(body) ==
    LET texts == body.texts
        language == LanguageOf(body)
    IN  IF ~texts.isArray \/ Len(texts.items) = 0
        THEN "Invalid input: texts must be a non-empty array"
        ELSE IF Len(texts.items) > MAX_PRELOAD_TEXTS
        THEN "Too many texts to preload (maximum 10)"
        ELSE IF ~isValidChineseText(texts.items[1])
        THEN "Invalid Chinese text"
        ELSE IF language \notin SUPPORTED_LANGUAGES
        THEN "Unsupported language"
        ELSE ""

\* The first validation of the handler that rejects the body, or "" when all pass.
PreloadRejection(body) ==
    LET texts == body.texts
        language == LanguageOf(body)
    IN  IF ~texts.isArray \/ Len(texts.items) = 0
        THEN "Invalid input: texts must be a non-empty array"
        ELSE IF Len(texts.items) > MAX_PRELOAD_TEXTS
        THEN "Too many texts to preload (maximum 10)"
        ELSE IF \E i \in 1..Len(texts.items) : ~isValidChineseText(texts.items[i])
        THEN "Invalid Chinese text"
        ELSE IF language \notin SUPPORTED_LANGUAGES
        THEN "Unsupported language"
        ELSE ""

\* An id generator that hands out the same id again
RepeatedPreloadId == nextId

\* crypto.randomUUID(): an id no earlier job had.
NewPreloadId == nextId + 1

\* The object `preloadData` of an accepted request.  error and
\* processingDuration are absent until the pass sets them ("" and -1 here).
NewPreloadData(id, texts, language) ==
    [id |-> id, texts |-> texts, language |-> language, status |-> "processing",
     results |-> <<>>, startTime |-> now, error |-> "", processingDuration |-> -1]

PreloadResponse(body) ==
    IF PreloadRejection(body) # ""
    THEN [code |-> 400, error |-> PreloadRejection(body)]
    ELSE [code |-> 200, success |-> TRUE, preloadId |-> NewPreloadId,
          status |-> "processing", textsCount |-> Len(body.texts.items),
          language |-> LanguageOf(body), statusUrl |-> <<"/preload/", NewPreloadId>>]

(***************************************************************************)
(* The setImmediate callback of POST /preload, and the handler             *)
(***************************************************************************)

\* A try block in which the resolution of every text throws
PassThrowsAlways(text, language) == TRUE

\* Whether a statement of the try block throws for this text: none does
\* (the texts are validated strings, the URL and the key are built from
\* strings, cleanCache never indexes past the entries).
PassThrows(text, language) == FALSE

RECURSIVE PassLoopSkipCached(_, _, _, _)
\* The loop pushing a result only for the texts it had to resolve
PassLoopSkipCached(cache, texts, language, n) ==
    IF n = 0
    THEN [cache |-> cache, results |-> <<>>, thrown |-> FALSE]
    ELSE LET prev == PassLoopSkipCached(cache, texts, language, n - 1)
             text == texts[n]
             cacheKey == generateCacheKey(text, language)
         IN  IF CacheHas(prev.cache, cacheKey) THEN prev
             ELSE [prev EXCEPT
                      !.cache = CacheInsert(@, text, language),
                      !.results = Append(@,
                          [text |-> text, audioUrl |-> PlayRef(cacheKey), cached |-> FALSE])]

RECURSIVE PassLoopSnapshot(_, _, _, _)
\* The loop testing every text against the cache as it was when the pass began
PassLoopSnapshot(cache, texts, language, n) ==
    IF n = 0
    THEN [cache |-> cache, results |-> <<>>, thrown |-> FALSE]
    ELSE LET prev == PassLoopSnapshot(cache, texts, language, n - 1)
             text == texts[n]
             cacheKey == generateCacheKey(text, language)
         IN  IF CacheHas(cache, cacheKey)
             THEN [prev EXCEPT !.results = Append(@,
                      [text |-> text, audioUrl |-> PlayRef(cacheKey), cached |-> TRUE])]
             ELSE [prev EXCEPT
                      !.cache = CacheInsert(@, text, language),
                      !.results = Append(@,
                          [text |-> text, audioUrl |-> PlayRef(cacheKey), cached |-> FALSE])]

RECURSIVE PassLoopUnshift(_, _, _, _)
\* The loop adding each result at the front of `results`
PassLoopUnshift(cache, texts, language, n) ==
    IF n = 0
    THEN [cache |-> cache, results |-> <<>>, thrown |-> FALSE]
    ELSE LET prev == PassLoopUnshift(cache, texts, language, n - 1)
             text == texts[n]
             cacheKey == generateCacheKey(text, language)
         IN  IF CacheHas(prev.cache, cacheKey)
             THEN [prev EXCEPT !.results =
                      <<[text |-> text, audioUrl |-> PlayRef(cacheKey), cached |-> TRUE]>> \o @]
             ELSE [prev EXCEPT
                      !.cache = CacheInsert(@, text, language),
                      !.results =
                          <<[text |-> text, audioUrl |-> PlayRef(cacheKey), cached |-> FALSE]>> \o @]

RECURSIVE PassLoopOwnKeys(_, _, _, _)
\* The loop keeping its records under keys of its own, apart from those of /audio
PassLoopOwnKeys(cache, texts, language, n) ==
    IF n = 0
    THEN [cache |-> cache, results |-> <<>>, thrown |-> FALSE]
    ELSE LET prev == PassLoopOwnKeys(cache, texts, language, n - 1)
             text == texts[n]
             cacheKey == generateCacheKey(text, language) \o <<"preload">>
         IN  IF CacheHas(prev.cache, cacheKey)
             THEN [prev EXCEPT !.results = Append(@,
                      [text |-> text, audioUrl |-> PlayRef(cacheKey), cached |-> TRUE])]
             ELSE [prev EXCEPT
                      !.cache = CacheSet(cleanCache(@), cacheKey, CacheRecord(text, language)),
                      !.results = Append(@,
                          [text |-> text, audioUrl |-> PlayRef(cacheKey), cached |-> FALSE])]

RECURSIVE PassLoop(_, _, _, _)
\* for (const text of texts) {...}: the cache and the local `results` after the
\* first n texts, and whether the loop was left by an exception.
PassLoop(cache, texts, language, n) ==
    IF n = 0
    THEN [cache |-> cache, results |-> <<>>, thrown |-> FALSE]
    ELSE LET prev == PassLoop(cache, texts, language, n - 1)
             text == texts[n]
             cacheKey == generateCacheKey(text, language)
         IN  IF prev.thrown THEN prev
             ELSE IF CacheHas(prev.cache, cacheKey)
             THEN [prev EXCEPT !.results = Append(@,
                      [text |-> text, audioUrl |-> PlayRef(cacheKey), cached |-> TRUE])]
             ELSE IF PassThrows(text, language)
             THEN [prev EXCEPT !.thrown = TRUE]
             ELSE [prev EXCEPT
                      !.cache = CacheInsert(@, text, language),
                      !.results = Append(@,
                          [text |-> text, audioUrl |-> PlayRef(cacheKey), cached |-> FALSE])]

\* A catch block that reports the results gathered before the exception
PassOutcomeKeepResults(preloadData, pass) ==
    IF pass.thrown
    THEN [preloadData EXCEPT !.status = "failed", !.error = "error.message",
                             !.results = pass.results]
    ELSE [preloadData EXCEPT !.status = "completed",
                             !.results = pass.results,
                             !.processingDuration = now - preloadData.startTime]

\* The assignments to preloadData after the loop, or in the catch block.
PassOutcome(preloadData, pass) ==
    IF pass.thrown
    THEN [preloadData EXCEPT !.status = "failed", !.error = "error.message"]
    ELSE [preloadData EXCEPT !.status = "completed",
                             !.results = pass.results,
                             !.processingDuration = now - preloadData.startTime]

\* POST /preload running the pass inside the handler instead of scheduling it
PostPreloadInline(body) ==
    IF PreloadRejection(body) # ""
    THEN UNCHANGED vars
    ELSE LET texts == body.texts.items
             language == LanguageOf(body)
             preloadId == NewPreloadId
             pass == PassLoop(audioCache, texts, language, Len(texts))
         IN  /\ nextId < MaxJobs
             /\ nextId' = preloadId
             /\ preloadQueue' =
                    [id \in DOMAIN preloadQueue \cup {preloadId} |->
                        IF id = preloadId
                        THEN [NewPreloadData(preloadId, texts, language) EXCEPT
                                 !.status = "completed", !.results = pass.results,
                                 !.processingDuration = 0]
                        ELSE preloadQueue[id]]
             /\ audioCache' = pass.cache
             /\ UNCHANGED <<immediates, now>>

PostPreload(body) ==
    IF PreloadRejection(body) # ""
    THEN UNCHANGED vars
    ELSE LET texts == body.texts.items
             language == LanguageOf(body)
             preloadId == NewPreloadId
         IN  /\ nextId < MaxJobs
             /\ nextId' = preloadId
             /\ preloadQueue' =
                    [id \in DOMAIN preloadQueue \cup {preloadId} |->
                        IF id = preloadId
                        THEN NewPreloadData(preloadId, texts, language)
                        ELSE preloadQueue[id]]
             \* setImmediate(async () => {...}): the closure holds texts, language
             \* and the preloadData object (named here by its id)
             /\ immediates' = Append(immediates,
                    [preloadId |-> preloadId, texts |-> texts, language |-> language])
             /\ UNCHANGED <<audioCache, now>>

\* A callback that stores its preloadData in the registry again when it is done
RunPassReRegister ==
    /\ immediates # <<>>
    /\ LET job == Head(immediates)
           pass == PassLoop(audioCache, job.texts, job.language, Len(job.texts))
       IN  /\ audioCache' = pass.cache
           /\ preloadQueue' =
                  [id \in DOMAIN preloadQueue \cup {job.preloadId} |->
                      IF id = job.preloadId
                      THEN PassOutcome(IF id \in DOMAIN preloadQueue
                                       THEN preloadQueue[id]
                                       ELSE NewPreloadData(id, job.texts, job.language),
                                       pass)
                      ELSE preloadQueue[id]]
    /\ immediates' = Tail(immediates)
    /\ UNCHANGED <<nextId, now>>

\* A callback that yields to the event loop after every text of its batch
RunPassYielding ==
    /\ immediates # <<>>
    /\ LET job == Head(immediates)
           pass == PassLoop(audioCache, job.texts, job.language, 1)
           last == Len(job.texts) = 1
       IN  /\ audioCache' = pass.cache
           /\ preloadQueue' =
                  [id \in DOMAIN preloadQueue |->
                      IF id = job.preloadId
                      THEN [preloadQueue[id] EXCEPT
                               !.results = @ \o pass.results,
                               !.status = IF last THEN "completed" ELSE @,
                               !.processingDuration =
                                   IF last THEN now - preloadQueue[id].startTime ELSE @]
                      ELSE preloadQueue[id]]
           /\ immediates' =
                  IF last THEN Tail(immediates)
                  ELSE <<[job EXCEPT !.texts = Tail(@)]>> \o Tail(immediates)
    /\ UNCHANGED <<nextId, now>>

\* The oldest scheduled callback runs.  A preloadData object that was removed
\* from preloadQueue meanwhile is still written, but nothing reads it again.
RunPass ==
    /\ immediates # <<>>
    /\ LET job == Head(immediates)
           pass == PassLoop(audioCache, job.texts, job.language, Len(job.texts))
       IN  /\ audioCache' = pass.cache
           /\ preloadQueue' =
                  [id \in DOMAIN preloadQueue |->
                      IF id = job.preloadId
                      THEN PassOutcome(preloadQueue[id], pass)
                      ELSE preloadQueue[id]]
    /\ immediates' = Tail(immediates)
    /\ UNCHANGED <<nextId, now>>

(***************************************************************************)
(* GET /preload/:preloadId                                                 *)
(***************************************************************************)

\* Ids a client may ask for: every id the service issues, and one it does not.
PreloadIds == 0..MaxJobs

\* The condition under which the status query deletes the job it reports.
LazyExpired(preloadData) ==
    /\ preloadData.status = "completed" \/ preloadData.status = "failed"
    /\ now - preloadData.startTime > LazyCutoff

PreloadStatusResponse(preloadId) ==
    IF preloadId \notin DOMAIN preloadQueue
    THEN [code |-> 404, error |-> "Preload request not found", preloadId |-> preloadId]
    ELSE LET preloadData == preloadQueue[preloadId] IN
         [code |-> 200, success |-> TRUE, preloadId |-> preloadId,
          status |-> preloadData.status, results |-> preloadData.results,
          textsCount |-> Len(preloadData.texts), language |-> preloadData.language,
          processingDuration |-> preloadData.processingDuration]

GetPreloadStatus(preloadId) ==
    /\ preloadId \in PreloadIds
    /\ preloadQueue' =
           IF preloadId \in DOMAIN preloadQueue /\ LazyExpired(preloadQueue[preloadId])
           THEN [id \in DOMAIN preloadQueue \ {preloadId} |-> preloadQueue[id]]
           ELSE preloadQueue
    /\ UNCHANGED <<audioCache, immediates, nextId, now>>

(***************************************************************************)
(* GET /cache/stats and POST /cache/clear                                  *)
(***************************************************************************)

CacheStatsResponse ==
    [code |-> 200, success |-> TRUE,
     cache |-> [size |-> Len(audioCache),
                maxSize |-> MAX_CACHE_SIZE,
                \* Math.round((size / maxSize) * 100)
                utilization |-> (Len(audioCache) * 200 + MAX_CACHE_SIZE) \div (2 * MAX_CACHE_SIZE),
                languageBreakdown |->
                    [l \in { audioCache[i].value.language : i \in 1..Len(audioCache) } |->
                        Cardinality({ i \in 1..Len(audioCache) : audioCache[i].value.language = l })]],
     preloadQueue |-> [active |-> Cardinality(DOMAIN preloadQueue)]]

GetCacheStats == UNCHANGED vars

CacheClearResponse ==
    [code |-> 200, success |-> TRUE, previousCacheSize |-> Len(audioCache)]

\* POST /cache/clear that clears the cache and leaves the registry alone
PostCacheClearKeepJobs ==
    /\ audioCache' = <<>>
    /\ UNCHANGED <<preloadQueue, immediates, nextId, now>>

PostCacheClear ==
    /\ audioCache' = <<>>
    /\ preloadQueue' = EmptyMap
    /\ UNCHANGED <<immediates, nextId, now>>

(***************************************************************************)
(* The setInterval sweep, and the clock                                    *)
(***************************************************************************)

\* A sweep that takes every job, whatever its age
SweepExpiredAny(data) == TRUE

SweepExpired(data) == now - data.startTime > SweepCutoff

\* Runs in the timers phase, hence never between a handler and the callbacks
\* it scheduled with setImmediate.
Sweep ==
    /\ immediates = <<>>
    /\ preloadQueue' =
           [id \in { i \in DOMAIN preloadQueue : ~SweepExpired(preloadQueue[i]) } |->
               preloadQueue[id]]
    /\ UNCHANGED <<audioCache, immediates, nextId, now>>

\* Date.now() moves on.  The check phase follows the poll phase at once, so no
\* retention window passes between a handler and the callbacks it scheduled.
Tick ==
    /\ immediates = <<>>
    /\ \E t \in Times : t > now /\ now' = t
    /\ UNCHANGED <<audioCache, preloadQueue, immediates, nextId>>

(***************************************************************************)
(* Specification                                                           *)
(***************************************************************************)

Next ==
    \/ \E body \in AudioBodies : PostAudio(body)
    \/ \E cacheKey \in PlayKeys, upstream \in UpstreamOutcomes : GetPlay(cacheKey, upstream)
    \/ \E body \in PreloadBodies : PostPreload(body)
    \/ RunPass
    \/ \E preloadId \in PreloadIds : GetPreloadStatus(preloadId)
    \/ GetCacheStats
    \/ PostCacheClear
    \/ Sweep
    \/ Tick

Spec == Init /\ [][Next]_vars

(***************************************************************************)
(* Properties                                                              *)
(***************************************************************************)

Terminal == {"completed", "failed"}

\* The closure of job id is still waiting in the setImmediate queue.
PassPending(id) == \E i \in 1..Len(immediates) : immediates[i].preloadId = id

\* Keys named by the results of a job.
ResultKeys(job) ==
    { generateCacheKey(job.results[i].text, job.language) : i \in 1..Len(job.results) }

\* A job of the registry names a key that is no longer cached: the registry was
\* not cleared since the job was accepted, so the key was evicted.
EvictedSince(id) ==
    /\ id \in DOMAIN preloadQueue
    /\ ResultKeys(preloadQueue[id]) \ CacheKeys(audioCache) # {}

\* C1: after every step of a handler or of a background pass the cache holds
\* at most MAX_CACHE_SIZE entries.
C1_SizeWithinCapacity == Len(audioCache) <= MAX_CACHE_SIZE

\* The cache is full again after an eviction took place.
C1_Witness ==
    /\ Len(audioCache) = MAX_CACHE_SIZE
    /\ \E id \in DOMAIN preloadQueue : EvictedSince(id)

\* floor(capacity * 0.2), as the claim states it
EvictCount == MAX_CACHE_SIZE \div 5

\* What the claim wants of an insertion of a new key: at capacity the oldest
\* EvictCount entries go, below capacity nothing goes, and the new entry is last.
ExpectedInsert(cache, text, language) ==
    LET kept == IF Len(cache) = MAX_CACHE_SIZE
                THEN SubSeq(cache, EvictCount + 1, Len(cache))
                ELSE cache
    IN  Append(kept, [key |-> generateCacheKey(text, language),
                      value |-> CacheRecord(text, language)])

\* Every insertion the head callback will make happens as ExpectedInsert says.
PassInsertsAsExpected ==
    immediates # <<>> =>
        LET job == Head(immediates) IN
        \A n \in 1..Len(job.texts) :
            LET before == PassLoop(audioCache, job.texts, job.language, n - 1).cache
                after == PassLoop(audioCache, job.texts, job.language, n).cache
            IN  ~CacheHas(before, generateCacheKey(job.texts[n], job.language))
                    => after = ExpectedInsert(before, job.texts[n], job.language)

\* What a step of POST /audio leaves alone, whatever the body.
AudioFrame == UNCHANGED <<preloadQueue, immediates, nextId, now>>

\* C2: an insertion of a new key at capacity first removes exactly the
\* floor(capacity * 0.2) oldest entries and then admits the new entry; below
\* capacity it removes nothing.  Both for POST /audio and for each insertion of
\* a preload pass.
C2_EvictOldestFifth ==
    /\ []PassInsertsAsExpected
    /\ [][ vars' = vars \/
           (AudioFrame =>
               \A body \in AudioBodies :
                   (AudioResponse(body).code = 200 /\ ~AudioResponse(body).cached
                        /\ PostAudio(body))
                       => audioCache' = ExpectedInsert(audioCache, body.text, LanguageOf(body)))
         ]_vars

\* Exactly the first key a completed job inserted was evicted; the cache is full.
C2_Witness ==
    /\ Len(audioCache) = MAX_CACHE_SIZE
    /\ \E id \in DOMAIN preloadQueue :
          LET job == preloadQueue[id] IN
          /\ job.status = "completed"
          /\ ~job.results[1].cached
          /\ ResultKeys(job) \ CacheKeys(audioCache)
                 = {generateCacheKey(job.results[1].text, job.language)}

\* Every text the head callback finds cached leaves the cache as it is.
PassHitsLeaveCache ==
    immediates # <<>> =>
        LET job == Head(immediates) IN
        \A n \in 1..Len(job.texts) :
            LET before == PassLoop(audioCache, job.texts, job.language, n - 1).cache
                after == PassLoop(audioCache, job.texts, job.language, n).cache
            IN  CacheHas(before, generateCacheKey(job.texts[n], job.language))
                    => after = before

\* C3: eviction is first-in-first-out: a cache hit (POST /audio for a cached
\* key, a preload text that is cached, GET /play) changes neither the entries
\* of the cache nor their order.
C3_HitsKeepOrder ==
    /\ []PassHitsLeaveCache
    /\ [][ vars' = vars \/
           /\ AudioFrame =>
                 \A body \in AudioBodies :
                     (AudioResponse(body).code = 200 /\ AudioResponse(body).cached
                          /\ PostAudio(body))
                         => audioCache' = audioCache
           /\ \A cacheKey \in PlayKeys, upstream \in UpstreamOutcomes :
                 GetPlay(cacheKey, upstream) => audioCache' = audioCache
         ]_vars

\* A key that a pass found cached (a hit) was evicted later all the same.
C3_Witness ==
    \E id \in DOMAIN preloadQueue :
        LET job == preloadQueue[id] IN
        \E i \in 1..Len(job.results) :
            /\ job.results[i].cached
            /\ ~CacheHas(audioCache, generateCacheKey(job.results[i].text, job.language))

\* C4: the status of a job changes at most once, from processing to completed
\* or failed: a terminal status stays as it is while the job is in the
\* registry, and a job enters the registry only as a new job in processing.
C4_StatusMonotonic ==
    [][ vars' = vars \/
        \A id \in PreloadIds :
            /\ (id \in DOMAIN preloadQueue /\ id \in DOMAIN preloadQueue'
                   /\ preloadQueue[id].status \in Terminal)
                   => preloadQueue'[id].status = preloadQueue[id].status
            /\ (id \in DOMAIN preloadQueue' /\ id \notin DOMAIN preloadQueue)
                   => (preloadQueue'[id].status = "processing" /\ id > nextId)
      ]_vars

\* A completed job that is exactly one retention window old is still there.
C4_Witness ==
    \E id \in DOMAIN preloadQueue :
        /\ preloadQueue[id].status = "completed"
        /\ now - preloadQueue[id].startTime = SweepCutoff

\* C5: a completed job has one result per text; a processing or failed job has
\* no results; and the status query reports the results of the job as they are.
C5_ResultsAllOrNothing ==
    \A id \in DOMAIN preloadQueue :
        LET job == preloadQueue[id] IN
        /\ job.status = "completed" => Len(job.results) = Len(job.texts)
        /\ job.status # "completed" => job.results = <<>>
        /\ PreloadStatusResponse(id).results = job.results
        /\ job.status \in Terminal \cup {"processing"}

\* A completed job with three results, one of them a cache hit.
C5_Witness ==
    \E id \in DOMAIN preloadQueue :
        LET job == preloadQueue[id] IN
        /\ job.status = "completed"
        /\ Len(job.results) = 3
        /\ \E i \in 1..3 : job.results[i].cached

\* C6: the results of a completed job are in the order of its texts:
\* results[i].text = texts[i] for every i.
C6_ResultsInInputOrder ==
    \A id \in DOMAIN preloadQueue :
        LET job == preloadQueue[id] IN
        job.status = "completed" =>
            \A i \in 1..Len(job.results) :
                i <= Len(job.texts) /\ job.results[i].text = job.texts[i]

\* A completed job whose texts hold a duplicate and whose first and last text differ.
C6_Witness ==
    \E id \in DOMAIN preloadQueue :
        LET job == preloadQueue[id] IN
        /\ job.status = "completed"
        /\ Len(job.results) = 3
        /\ job.texts[1] = job.texts[2]
        /\ job.texts[1] # job.texts[3]

\* What the head callback does with its n-th text agrees with the cache at
\* that moment: a cached key is reported cached and the cache stays as it is;
\* any other key is reported not cached and its record is inserted.
PassFlagsFollowCache ==
    immediates # <<>> =>
        LET job == Head(immediates)
            final == PassLoop(audioCache, job.texts, job.language, Len(job.texts))
        IN  /\ Len(final.results) = Len(job.texts)
            /\ \A n \in 1..Len(job.texts) :
                  LET before == PassLoop(audioCache, job.texts, job.language, n - 1).cache
                      after == PassLoop(audioCache, job.texts, job.language, n).cache
                      cacheKey == generateCacheKey(job.texts[n], job.language)
                  IN  /\ final.results[n].cached = CacheHas(before, cacheKey)
                      /\ CacheHas(before, cacheKey) => after = before
                      /\ ~CacheHas(before, cacheKey) =>
                             /\ CacheHas(after, cacheKey)
                             /\ CacheGet(after, cacheKey).value
                                    = CacheRecord(job.texts[n], job.language)

\* C7: in a preload pass each text is reported cached = true exactly when its
\* key is in the cache at the moment the text is processed, and then the cache
\* is not modified; otherwise it is reported cached = false and its record is
\* inserted.  A text repeated within the batch is cached = true the second time.
C7_CachedFlagPerText ==
    /\ []PassFlagsFollowCache
    /\ [][ vars' = vars \/
           (RunPass =>
               \A id \in DOMAIN preloadQueue' :
                   id = Head(immediates).preloadId =>
                       LET texts == Head(immediates).texts
                           language == Head(immediates).language
                           results == preloadQueue'[id].results
                       IN  /\ Len(results) = Len(texts)
                           /\ results[1].cached
                                  = CacheHas(audioCache, generateCacheKey(texts[1], language))
                           /\ \A i, j \in 1..Len(texts) :
                                  (i < j /\ texts[i] = texts[j]) => results[j].cached
                           /\ (\A n \in 1..Len(texts) : results[n].cached)
                                  => audioCache' = audioCache
                           /\ \A n \in 1..Len(texts) :
                                  ~results[n].cached =>
                                      CacheHas(audioCache', generateCacheKey(texts[n], language)))
         ]_vars

\* A completed job whose first text was resolved and whose second text, the
\* same one, was found cached.
C7_Witness ==
    \E id \in DOMAIN preloadQueue :
        LET job == preloadQueue[id] IN
        /\ job.status = "completed"
        /\ Len(job.results) >= 2
        /\ job.texts[1] = job.texts[2]
        /\ ~job.results[1].cached
        /\ job.results[2].cached

\* Between the submit and the pass a status query answers processing.
PendingJobsAreProcessing ==
    \A id \in DOMAIN preloadQueue :
        PassPending(id) =>
            /\ preloadQueue[id].status = "processing"
            /\ PreloadStatusResponse(id).code = 200
            /\ PreloadStatusResponse(id).status = "processing"
            /\ PreloadStatusResponse(id).results = <<>>

\* C8: an accepted POST /preload stores the job in processing with no results,
\* answers its id and status processing, and only schedules the pass: the
\* handler leaves the cache alone, and until the pass runs the status query
\* answers processing.
C8_SubmitAnswersBeforePass ==
    /\ []PendingJobsAreProcessing
    /\ [][ vars' = vars \/
           \A body \in PreloadBodies :
               (PreloadRejection(body) = "" /\ PostPreload(body)) =>
                   \A id \in PreloadIds :
                       id = PreloadResponse(body).preloadId =>
                           /\ PreloadResponse(body).code = 200
                           /\ PreloadResponse(body).status = "processing"
                           /\ id \notin DOMAIN preloadQueue
                           /\ id \in DOMAIN preloadQueue'
                           /\ preloadQueue'[id].status = "processing"
                           /\ preloadQueue'[id].results = <<>>
                           /\ preloadQueue'[id].texts = body.texts.items
                           /\ audioCache' = audioCache
                           /\ Len(immediates') = Len(immediates) + 1
                           /\ immediates'[Len(immediates')].preloadId = id
         ]_vars

\* A job is in the registry and its pass has not run yet, with a cache that is
\* not empty.
C8_Witness ==
    /\ audioCache # <<>>
    /\ \E id \in DOMAIN preloadQueue :
          PassPending(id) /\ PreloadStatusResponse(id).status = "processing"

\* The specification with the scheduling of setImmediate: a scheduled callback
\* is run.
LiveSpec == Init /\ [][Next]_vars /\ WF_vars(RunPass)

\* Once its pass ran, a job of the registry is reported completed with one
\* result per text.
PassedJobsAreCompleted ==
    \A id \in DOMAIN preloadQueue :
        ~PassPending(id) =>
            /\ PreloadStatusResponse(id).code = 200
            /\ PreloadStatusResponse(id).status = "completed"
            /\ Len(PreloadStatusResponse(id).results) = Len(preloadQueue[id].texts)
            /\ PreloadStatusResponse(id).textsCount = Len(preloadQueue[id].texts)

\* C9: the pass of every accepted job eventually runs (no pass stays pending
\* for ever: at infinitely many instants the pass of the job is not pending), so
\* a job does not stay in processing; and a status query handled after the
\* pass, while the job is in the registry, answers completed with one result
\* per submitted text.
C9_JobsReachCompleted ==
    /\ []PassedJobsAreCompleted
    /\ \A id \in 1..MaxJobs : []<>~PassPending(id)

\* A job none of whose texts was cached is reported completed with its three
\* results, all of them resolved by the pass.
C9_Witness ==
    \E id \in DOMAIN preloadQueue :
        /\ ~PassPending(id)
        /\ PreloadStatusResponse(id).status = "completed"
        /\ Len(PreloadStatusResponse(id).results) = 3
        /\ \A i \in 1..3 : ~PreloadStatusResponse(id).results[i].cached

\* POST /audio answers cached exactly when the key of the pair is in the cache.
AudioFlagFollowsCache ==
    \A body \in AudioBodies :
        AudioResponse(body).code = 200 =>
            AudioResponse(body).cached
                = CacheHas(audioCache, generateCacheKey(body.text, LanguageOf(body)))

\* C10: POST /audio for a valid pair answers cached = false exactly when the
\* key of the pair is not in the cache; after that answer the key is in the
\* cache, and the same request handled next answers cached = true.
C10_AudioCachedFlag ==
    /\ []AudioFlagFollowsCache
    /\ [][ vars' = vars \/
           (AudioFrame =>
               \A body \in AudioBodies :
                   (AudioResponse(body).code = 200 /\ ~AudioResponse(body).cached
                        /\ PostAudio(body))
                       => /\ CacheHas(audioCache', generateCacheKey(body.text, LanguageOf(body)))
                          /\ AudioResponse(body)'.code = 200
                          /\ AudioResponse(body)'.cached)
         ]_vars

\* No job was accepted yet, so POST /audio inserted the pair that is the newest
\* entry of the cache; the request without a language is answered cached = true.
C10_Witness ==
    /\ nextId = 0
    /\ Len(audioCache) >= 2
    /\ audioCache[Len(audioCache)].key = generateCacheKey(NiHao, "zh-CN")
    /\ AudioResponse([text |-> NiHao, language |-> "undefined"]).cached

\* A body POST /audio has to reject: the text fails isValidChineseText, or the
\* language of the request is none of the supported ones.
AudioRejected(body) ==
    \/ ~isValidChineseText(body.text)
    \/ LanguageOf(body) \notin SUPPORTED_LANGUAGES

RejectedAudioAnswers400 ==
    \A body \in AudioBodies : AudioRejected(body) => AudioResponse(body).code = 400

\* C11: a POST /audio with an invalid text or an unsupported language is
\* answered 400, and the request leaves the cache and the job registry as they
\* were (nothing inserted, nothing evicted).
C11_AudioRejectionLeavesState ==
    /\ []RejectedAudioAnswers400
    /\ [][ vars' = vars \/
           \A body \in AudioBodies :
               (AudioRejected(body) /\ PostAudio(body))
                   => (audioCache' = audioCache /\ preloadQueue' = preloadQueue)
         ]_vars

\* A rejected body arrives while the cache is full (an insertion would evict)
\* and the registry holds a job.
C11_Witness ==
    /\ Len(audioCache) = MAX_CACHE_SIZE
    /\ DOMAIN preloadQueue # {}
    /\ AudioRejected([text |-> Hello, language |-> "zh-CN"])
    /\ AudioResponse([text |-> Hello, language |-> "zh-CN"]).code = 400
    /\ AudioResponse([text |-> NiHao, language |-> "en-US"]).code = 400

\* A body POST /preload has to reject.
PreloadInvalid(body) ==
    \/ ~body.texts.isArray
    \/ Len(body.texts.items) = 0
    \/ Len(body.texts.items) > MAX_PRELOAD_TEXTS
    \/ \E i \in 1..Len(body.texts.items) : ~isValidChineseText(body.texts.items[i])
    \/ LanguageOf(body) \notin SUPPORTED_LANGUAGES

RejectedPreloadAnswers400 ==
    \A body \in PreloadBodies : PreloadInvalid(body) => PreloadResponse(body).code = 400

\* C12: a POST /preload whose texts are no list or empty, more than 10, contain
\* an invalid text, or whose language is unsupported is answered 400; the
\* request creates no job, schedules no pass and leaves the cache as it was,
\* also when the texts before the invalid one are valid.
C12_PreloadRejectionLeavesState ==
    /\ []RejectedPreloadAnswers400
    /\ [][ vars' = vars \/
           \A body \in PreloadBodies :
               (PreloadInvalid(body) /\ PostPreload(body))
                   => /\ preloadQueue' = preloadQueue
                      /\ immediates' = immediates
                      /\ audioCache' = audioCache
         ]_vars

\* A batch with a valid first text and an invalid second one is rejected while
\* the service could still accept a job and the cache holds entries.
C12_Witness ==
    /\ nextId < MaxJobs
    /\ audioCache # <<>>
    /\ isValidChineseText(NiHao) /\ ~isValidChineseText(Hello)
    /\ PreloadResponse([texts |-> Arr(<<NiHao, Hello, Xue>>), language |-> "zh-CN"]).code = 400
    /\ PreloadResponse([texts |-> Arr(<<>>), language |-> "zh-CN"]).code = 400

\* The cache holds a record of the pair, whichever path stored it.
HoldsRecord(cache, text, language) ==
    \E i \in 1..Len(cache) :
        cache[i].value.text = text /\ cache[i].value.language = language

\* POST /audio answers cached exactly for the pairs a record of which is held.
AudioSeesEveryRecord ==
    \A body \in AudioBodies :
        AudioResponse(body).code = 200 =>
            AudioResponse(body).cached = HoldsRecord(audioCache, body.text, LanguageOf(body))

\* The head callback reports its n-th text cached exactly when a record of the
\* pair is held at the moment it comes to that text.
PassSeesEveryRecord ==
    immediates # <<>> =>
        LET job == Head(immediates)
            final == PassLoop(audioCache, job.texts, job.language, Len(job.texts))
        IN  \A n \in 1..Len(job.texts) :
                final.results[n].cached
                    = HoldsRecord(PassLoop(audioCache, job.texts, job.language, n - 1).cache,
                                  job.texts[n], job.language)

\* C13: POST /audio and the preload pass read and write one cache.  A record
\* stored by POST /audio is held afterwards and a record stored by a pass is
\* held after the pass; and as long as a record of a pair is held (its key was
\* neither evicted nor cleared), a pass reports the pair cached = true and so
\* does POST /audio, whichever of the two stored it.
C13_OneCacheForBothPaths ==
    /\ []AudioSeesEveryRecord
    /\ []PassSeesEveryRecord
    /\ [][ vars' = vars \/
           /\ \A body \in AudioBodies :
                  (AudioResponse(body).code = 200 /\ ~AudioResponse(body).cached
                       /\ PostAudio(body))
                      => HoldsRecord(audioCache', body.text, LanguageOf(body))
           /\ RunPass =>
                  \A id \in DOMAIN preloadQueue' :
                      id = Head(immediates).preloadId =>
                          \A job \in {Head(immediates)} :
                              \A n \in 1..Len(job.texts) :
                                  ~preloadQueue'[id].results[n].cached =>
                                      \A text \in {job.texts[n]} :
                                          /\ HoldsRecord(audioCache', text, job.language)
                                          /\ AudioResponse([text |-> text,
                                                 language |-> job.language])'.cached
         ]_vars

\* A completed job found one of its texts cached at its first occurrence in the
\* batch (the record was there before the pass), and a pair the job stored
\* itself is answered cached = true by POST /audio.
C13_Witness ==
    \E id \in DOMAIN preloadQueue :
        LET job == preloadQueue[id] IN
        /\ job.status = "completed"
        /\ \E n \in 1..Len(job.results) :
               /\ job.results[n].cached
               /\ \A m \in 1..(n - 1) : job.texts[m] # job.texts[n]
        /\ \E n \in 1..Len(job.results) :
               /\ ~job.results[n].cached
               /\ AudioResponse([text |-> job.texts[n], language |-> job.language]).cached

\* When the timers phase is reached every scheduled pass has run: the sweep
\* finds no job in processing.
SweepSeesNoProcessingJob ==
    immediates = <<>> =>
        \A id \in DOMAIN preloadQueue : preloadQueue[id].status \in Terminal

\* C14: every job the periodic sweep removes is completed or failed and older
\* than the retention window; a job in processing is left in the registry by
\* the sweep as it is.
C14_SweepRemovesOnlyExpiredTerminal ==
    /\ []SweepSeesNoProcessingJob
    /\ [][ vars' = vars \/
           (Sweep =>
               \A id \in DOMAIN preloadQueue :
                   /\ id \notin DOMAIN preloadQueue' =>
                          /\ preloadQueue[id].status \in Terminal
                          /\ now - preloadQueue[id].startTime > SweepCutoff
                   /\ preloadQueue[id].status = "processing" =>
                          /\ id \in DOMAIN preloadQueue'
                          /\ preloadQueue'[id] = preloadQueue[id])
         ]_vars

\* The sweep is about to run on a completed job older than the retention
\* window.
C14_Witness ==
    /\ ENABLED Sweep
    /\ \E id \in DOMAIN preloadQueue :
          /\ preloadQueue[id].status \in Terminal
          /\ SweepExpired(preloadQueue[id])
          /\ now - preloadQueue[id].startTime = SweepCutoff + 1

\* C15: GET /preload/{id} answers 404 when the id is not in the registry and
\* when the job is expired (completed or failed, and older than the retention
\* window) though still in the registry; for every other job it answers 200
\* with the status and the results of the job.
C15_ExpiredOrAbsentAnswers404 ==
    \A id \in PreloadIds :
        IF id \notin DOMAIN preloadQueue
        THEN PreloadStatusResponse(id).code = 404
        ELSE IF /\ preloadQueue[id].status \in Terminal
                /\ now - preloadQueue[id].startTime > LazyCutoff
        THEN PreloadStatusResponse(id).code = 404
        ELSE /\ PreloadStatusResponse(id).code = 200
             /\ PreloadStatusResponse(id).status = preloadQueue[id].status
             /\ PreloadStatusResponse(id).results = preloadQueue[id].results

\* POST /cache/clear was handled while a pass was scheduled, and no POST /audio
\* and no POST /preload was accepted since: both maps are empty (an accepted
\* /audio leaves its key in the cache, an accepted /preload its job in the
\* registry until its pass has run) and the callback, which only a clear can
\* part from its job, is still waiting.
ClearedWithPassPending ==
    /\ audioCache = <<>>
    /\ preloadQueue = EmptyMap
    /\ immediates # <<>>

\* The step is a POST /audio or a POST /preload that the service accepts.
AcceptedRequest ==
    \/ \E body \in AudioBodies : AudioResponse(body).code = 200 /\ PostAudio(body)
    \/ \E body \in PreloadBodies : PreloadRejection(body) = "" /\ PostPreload(body)

\* C16: once POST /cache/clear has answered, and as long as no POST /audio and
\* no POST /preload is accepted, GET /cache/stats reports cache size 0, also
\* when the pass of a job accepted before the clear is still pending.
C16_StatsAfterClearReportZero ==
    [][ vars' = vars \/
        ((ClearedWithPassPending /\ ~AcceptedRequest)
            => CacheStatsResponse'.cache.size = 0)
      ]_vars

\* C17: POST /cache/clear empties the cache and the registry in the one step
\* and answers as previousCacheSize the number of entries the cache held before
\* it; after the step GET /play answers 404 for every key that was cached and
\* GET /preload/{id} answers 404 for every id that was issued, and an id that
\* left the registry does not come back.
C17_ClearEmptiesCacheAndRegistry ==
    /\ [](CacheClearResponse.code = 200
           /\ CacheClearResponse.previousCacheSize = Cardinality(CacheKeys(audioCache)))
    /\ [][ vars' = vars \/
           /\ PostCacheClear =>
                  /\ audioCache' = <<>>
                  /\ preloadQueue' = EmptyMap
                  /\ \A cacheKey \in PlayKeys \cup CacheKeys(audioCache),
                        upstream \in UpstreamOutcomes :
                         /\ PlayResponse(cacheKey, upstream)'.sent[1].code = 404
                         /\ PlayResponse(cacheKey, upstream)'.fetched = <<>>
                  /\ \A id \in PreloadIds : PreloadStatusResponse(id)'.code = 404
           /\ \A id \in PreloadIds :
                  (id >= 1 /\ id <= nextId /\ id \notin DOMAIN preloadQueue)
                      => id \notin DOMAIN preloadQueue'
         ]_vars

\* POST /cache/clear is about to run on a cache that holds keys a client was
\* given and on a registry that holds a job.
C17_Witness ==
    /\ Len(audioCache) >= 2
    /\ CacheClearResponse.previousCacheSize = Len(audioCache)
    /\ \E cacheKey \in PlayKeys : PlayResponse(cacheKey, <<"response", "data">>).sent[1].code = 200
    /\ \E id \in PreloadIds : PreloadStatusResponse(id).code = 200

\* C18: GET /play for a key that is not cached answers 404 and fetches nothing
\* upstream; and whatever the upstream does (nothing asked of it, the audio
\* streamed, an error, a timeout) the request leaves the cache and the registry
\* as they were.
C18_PlayLeavesState ==
    /\ [](\A cacheKey \in PlayKeys, upstream \in UpstreamOutcomes :
             ~CacheHas(audioCache, cacheKey) =>
                 /\ PlayResponse(cacheKey, upstream).sent[1].code = 404
                 /\ PlayResponse(cacheKey, upstream).attempts = PlayResponse(cacheKey, upstream).sent
                 /\ PlayResponse(cacheKey, upstream).fetched = <<>>)
    /\ [][ vars' = vars \/
           \A cacheKey \in PlayKeys, upstream \in UpstreamOutcomes :
               GetPlay(cacheKey, upstream)
                   => (audioCache' = audioCache /\ preloadQueue' = preloadQueue)
         ]_vars

\* With a job in the registry, one key a client asks for is cached, and is
\* streamed, fails or times out as the upstream decides, and another is not.
C18_Witness ==
    /\ DOMAIN preloadQueue # {}
    /\ \E cacheKey \in PlayKeys :
          /\ PlayResponse(cacheKey, <<"response", "data">>).sent[1].code = 200
          /\ PlayResponse(cacheKey, <<"error">>).sent[1].code = 500
          /\ PlayResponse(cacheKey, <<"timeout", "error">>).sent[1].code = 504
    /\ \E cacheKey \in PlayKeys :
          /\ cacheKey # <<<<0>>, "-", "none">>
          /\ PlayResponse(cacheKey, <<"error">>).sent[1].code = 404

\* C19: GET /play for a cached key fetches the locator of the record upstream
\* exactly once; when the upstream times out the connection is aborted and the
\* client receives the 504 answer; when the upstream fails with a transport
\* error the client receives the 500 answer with the message of the error.
C19_PlayOneFetchAndErrorAnswers ==
    \A cacheKey \in PlayKeys, upstream \in UpstreamOutcomes :
        CacheHas(audioCache, cacheKey) =>
            LET play == PlayResponse(cacheKey, upstream)
                events == { upstream[i] : i \in 1..Len(upstream) }
            IN  /\ play.fetched = <<CacheGet(audioCache, cacheKey).value.audioUrl>>
                /\ "timeout" \in events =>
                       /\ play.aborted
                       /\ play.sent[1].code = 504
                \* an 'error' that is not the one request.destroy() brings about
                /\ ("error" \in events /\ "timeout" \notin events) =>
                       /\ play.sent[1].code = 500
                       /\ play.sent[1].details = "error.message"

\* Every entry is the record of the pair its key is made of, and no key is
\* held twice: a lookup of a key has one answer, and a key that was evicted or
\* cleared and is inserted again gets the record it had.
EntriesAreRecordsOfTheirKey ==
    /\ \A i \in 1..Len(audioCache) :
          /\ audioCache[i].key
                 = generateCacheKey(audioCache[i].value.text, audioCache[i].value.language)
          /\ audioCache[i].value
                 = CacheRecord(audioCache[i].value.text, audioCache[i].value.language)
    /\ \A i, j \in 1..Len(audioCache) :
          audioCache[i].key = audioCache[j].key => i = j

\* C20: from its insertion until it is evicted or the cache is cleared a key
\* has the record it was inserted with (the same text, language and locator);
\* no step changes the record of a key that stays in the cache.
C20_RecordsNeverChange ==
    /\ []EntriesAreRecordsOfTheirKey
    /\ [][ vars' = vars \/
           \A cacheKey \in CacheKeys(audioCache) :
               CacheHas(audioCache', cacheKey) =>
                   /\ CacheGet(audioCache', cacheKey).value.text
                          = CacheGet(audioCache, cacheKey).value.text
                   /\ CacheGet(audioCache', cacheKey).value.language
                          = CacheGet(audioCache, cacheKey).value.language
                   /\ CacheGet(audioCache', cacheKey).value.audioUrl
                          = CacheGet(audioCache, cacheKey).value.audioUrl
         ]_vars

\* The cache is full and holds the same text in both languages, each under
\* its own key with its own locator, and a pass found one of its texts cached.
C20_Witness ==
    /\ Len(audioCache) = MAX_CACHE_SIZE
    /\ CacheHas(audioCache, generateCacheKey(NiHao, "zh-CN"))
    /\ CacheHas(audioCache, generateCacheKey(NiHao, "zh-TW"))
    /\ CacheGet(audioCache, generateCacheKey(NiHao, "zh-TW")).value.audioUrl
           # CacheGet(audioCache, generateCacheKey(NiHao, "zh-CN")).value.audioUrl
    /\ \E id \in DOMAIN preloadQueue :
          \E n \in 1..Len(preloadQueue[id].results) : preloadQueue[id].results[n].cached

(***************************************************************************)
(* The pass with an exception in its try block                             *)
(***************************************************************************)

RECURSIVE PassLoopFault(_, _, _, _, _)
\* The loop of the callback when resolving the text at index `fault` throws
\* (generateAudioUrl, before cleanCache and audioCache.set): the texts before
\* it are handled as in PassLoop, the texts after it are not reached.
PassLoopFault(cache, texts, language, n, fault) ==
    IF n = 0
    THEN [cache |-> cache, results |-> <<>>, thrown |-> FALSE]
    ELSE LET prev == PassLoopFault(cache, texts, language, n - 1, fault)
             text == texts[n]
             cacheKey == generateCacheKey(text, language)
         IN  IF prev.thrown THEN prev
             ELSE IF CacheHas(prev.cache, cacheKey)
             THEN [prev EXCEPT !.results = Append(@,
                      [text |-> text, audioUrl |-> PlayRef(cacheKey), cached |-> TRUE])]
             ELSE IF n = fault
             THEN [prev EXCEPT !.thrown = TRUE]
             ELSE [prev EXCEPT
                      !.cache = CacheInsert(@, text, language),
                      !.results = Append(@,
                          [text |-> text, audioUrl |-> PlayRef(cacheKey), cached |-> FALSE])]

\* The oldest scheduled callback runs and the statement resolving its text at
\* index `fault` throws: the catch block takes over.
RunPassFault(fault) ==
    /\ immediates # <<>>
    /\ fault \in 1..Len(Head(immediates).texts)
    /\ LET job == Head(immediates)
           pass == PassLoopFault(audioCache, job.texts, job.language, Len(job.texts), fault)
       IN  /\ audioCache' = pass.cache
           /\ preloadQueue' =
                  [id \in DOMAIN preloadQueue |->
                      IF id = job.preloadId
                      THEN PassOutcome(preloadQueue[id], pass)
                      ELSE preloadQueue[id]]
    /\ immediates' = Tail(immediates)
    /\ UNCHANGED <<nextId, now>>

\* The service in an environment in which a statement of the try block can
\* throw.
FaultNext ==
    \/ \E body \in AudioBodies : PostAudio(body)
    \/ \E cacheKey \in PlayKeys, upstream \in UpstreamOutcomes : GetPlay(cacheKey, upstream)
    \/ \E body \in PreloadBodies : PostPreload(body)
    \/ RunPass
    \/ \E fault \in 1..MAX_PRELOAD_TEXTS : RunPassFault(fault)
    \/ \E preloadId \in PreloadIds : GetPreloadStatus(preloadId)
    \/ GetCacheStats
    \/ PostCacheClear
    \/ Sweep
    \/ Tick

FaultSpec == Init /\ [][FaultNext]_vars

\* A failed job has its error message and no results, and is reported so; the
\* service goes on answering.
FailedJobsHaveNoResults ==
    \A id \in DOMAIN preloadQueue :
        preloadQueue[id].status = "failed" =>
            /\ preloadQueue[id].error # ""
            /\ preloadQueue[id].results = <<>>
            /\ PreloadStatusResponse(id).code = 200
            /\ PreloadStatusResponse(id).status = "failed"
            /\ PreloadStatusResponse(id).results = <<>>
            /\ CacheStatsResponse.code = 200
            /\ \A body \in AudioBodies : AudioResponse(body).code \in {200, 400}

RECURSIVE SumOver(_, _)
\* The sum of the values of a function over a finite set of its arguments.
SumOver(f, S) ==
    IF S = {} THEN 0
    ELSE LET x == CHOOSE y \in S : TRUE IN f[x] + SumOver(f, S \ {x})

\* C22: GET /cache/stats reports as preloadQueue.active the number of jobs that
\* are in processing, not counting the completed and failed jobs that wait to
\* be swept; the cache size it reports is the number of cached entries, and the
\* counts per language add up to that size.
C22_StatsCountProcessingJobs ==
    /\ CacheStatsResponse.preloadQueue.active
           = Cardinality({ id \in DOMAIN preloadQueue : preloadQueue[id].status = "processing" })
    /\ CacheStatsResponse.cache.size = Cardinality(CacheKeys(audioCache))
    /\ SumOver(CacheStatsResponse.cache.languageBreakdown,
               DOMAIN CacheStatsResponse.cache.languageBreakdown)
           = CacheStatsResponse.cache.size

(***************************************************************************)
(* The service under a clock that is not tied to the event loop            *)
(***************************************************************************)

\* Date.now() is the wall clock: it can be stepped, or the process be stopped,
\* between a handler and the callback it scheduled.
TickAnyPhase ==
    /\ \E t \in Times : t > now /\ now' = t
    /\ UNCHANGED <<audioCache, preloadQueue, immediates, nextId>>

ClockNext ==
    \/ \E body \in AudioBodies : PostAudio(body)
    \/ \E cacheKey \in PlayKeys, upstream \in UpstreamOutcomes : GetPlay(cacheKey, upstream)
    \/ \E body \in PreloadBodies : PostPreload(body)
    \/ RunPass
    \/ \E preloadId \in PreloadIds : GetPreloadStatus(preloadId)
    \/ GetCacheStats
    \/ PostCacheClear
    \/ Sweep
    \/ TickAnyPhase

ClockSpec == Init /\ [][ClockNext]_vars

\* C23: the status query and the periodic sweep apply one expiry rule: at any
\* instant the query deletes a job exactly when a sweep at that instant would
\* (age counted from startTime, threshold 300000 ms, strict comparison, and the
\* same condition on the status of the job).
C23_SameExpiryRule ==
    \A id \in DOMAIN preloadQueue :
        LazyExpired(preloadQueue[id]) <=> SweepExpired(preloadQueue[id])

\* The job of a pending pass is no longer in the registry: POST /cache/clear
\* was handled after the job was accepted.
PassOrphaned(id) == PassPending(id) /\ id \notin DOMAIN preloadQueue

\* C24: when POST /cache/clear is handled between the acceptance of a job and
\* its pass, the pass still runs and ends without an exception, every text it
\* resolves is stored in the cache (a cache that was empty holds exactly the
\* keys of the batch afterwards), and the job is not put back into the
\* registry: its id answers 404 before and after the pass.
C24_PassAfterClear ==
    /\ [](\A id \in PreloadIds : PassOrphaned(id) => PreloadStatusResponse(id).code = 404)
    /\ [][ vars' = vars \/
           \A job \in { immediates[i] : i \in 1..Len(immediates) } :
               (job = Head(immediates) /\ PassOrphaned(job.preloadId) /\ RunPass)
                   => LET pass == PassLoop(audioCache, job.texts, job.language, Len(job.texts))
                          batchKeys == { generateCacheKey(job.texts[n], job.language) :
                                             n \in 1..Len(job.texts) }
                      IN  /\ ~pass.thrown
                          /\ Len(pass.results) = Len(job.texts)
                          /\ immediates' = Tail(immediates)
                          /\ \A n \in 1..Len(job.texts) :
                                 ~pass.results[n].cached =>
                                     CacheHas(audioCache', generateCacheKey(job.texts[n], job.language))
                          /\ audioCache = <<>> => CacheKeys(audioCache') = batchKeys
                          /\ preloadQueue' = preloadQueue
                          /\ job.preloadId \notin DOMAIN preloadQueue'
                          /\ PreloadStatusResponse(job.preloadId)'.code = 404
         ]_vars

\* No time has passed, so only a clear can have removed the one job accepted;
\* the cache holds a record that only the pass of that job stores, so the pass
\* ran after the clear; and the id of the job answers 404.
C24_Witness ==
    /\ now = 0
    /\ nextId = 1
    /\ immediates = <<>>
    /\ preloadQueue = EmptyMap
    /\ CacheHas(audioCache, generateCacheKey(ExtA, "zh-TW"))
    /\ PreloadStatusResponse(1).code = 404

EntriesToRemoveAt(capacity) == (capacity * 2) \div 10

\* cleanCache removing a tenth of the capacity
cleanCacheAtTenth(cache, capacity) ==
    IF Len(cache) >= capacity
    THEN DeleteFirst(cache, cache, capacity \div 10)
    ELSE cache

\* cleanCache, with MAX_CACHE_SIZE = capacity
cleanCacheAt(cache, capacity) ==
    IF Len(cache) >= capacity
    THEN DeleteFirst(cache, cache, EntriesToRemoveAt(capacity))
    ELSE cache

\* cleanCache(); audioCache.set(cacheKey, {...}), with MAX_CACHE_SIZE = capacity
CacheInsertAt(cache, capacity, text, language) ==
    CacheSet(cleanCacheAt(cache, capacity), generateCacheKey(text, language),
             CacheRecord(text, language))

\* The capacities looked at, and a cache of n entries as n requests for n
\* valid texts (one CJK character each) leave it.
Capacities == 1..(2 * MAX_CACHE_SIZE + 2)
SampleText(i) == Str(<<19968 + i>>)
FilledCache(n) ==
    [i \in 1..n |->
        [key |-> generateCacheKey(SampleText(i), DEFAULT_LANGUAGE),
         value |-> CacheRecord(SampleText(i), DEFAULT_LANGUAGE)]]

\* Caches of exactly capacity entries: n requests for n texts, and the first
\* capacity entries of the cache of the service.
FullCaches(capacity) ==
    {FilledCache(capacity)}
        \cup (IF Len(audioCache) >= capacity THEN {SubSeq(audioCache, 1, capacity)} ELSE {})

\* C26: at every capacity from 1 on, an insertion into a cache that holds
\* capacity entries evicts at least one entry first, and the cache holds at
\* most capacity entries after it.
C26_EveryCapacityEvicts ==
    \A capacity \in Capacities :
        \A full \in FullCaches(capacity) :
            /\ Len(cleanCacheAt(full, capacity)) < capacity
            /\ Len(CacheInsertAt(full, capacity, SampleText(capacity + 1), DEFAULT_LANGUAGE))
                   <= capacity

\* C26, amended: at every capacity from 5 on, an insertion into a cache that
\* holds capacity entries evicts floor(capacity * 0.2) >= 1 entries first, and
\* an insertion into a cache of at most capacity entries leaves at most
\* capacity entries; at the capacities 1 to 4 nothing is evicted and the
\* insertion into the full cache leaves capacity + 1 entries.
C26_CapacityFromFiveEvicts ==
    /\ cleanCacheAt(audioCache, MAX_CACHE_SIZE) = cleanCache(audioCache)
    /\ \A capacity \in Capacities :
          IF capacity >= 5
          THEN /\ EntriesToRemoveAt(capacity) >= 1
               /\ \A full \in FullCaches(capacity) :
                      Len(cleanCacheAt(full, capacity)) = capacity - EntriesToRemoveAt(capacity)
               /\ \A n \in 0..capacity :
                      Len(CacheInsertAt(FilledCache(n), capacity,
                                        SampleText(capacity + 1), DEFAULT_LANGUAGE)) <= capacity
          ELSE /\ cleanCacheAt(FilledCache(capacity), capacity) = FilledCache(capacity)
               /\ Len(CacheInsertAt(FilledCache(capacity), capacity,
                                    SampleText(capacity + 1), DEFAULT_LANGUAGE)) = capacity + 1

\* The cache of the service is full at a capacity of at least 5, and the next
\* insertion evicts from it.
C26_Witness ==
    /\ MAX_CACHE_SIZE >= 5
    /\ Len(audioCache) = MAX_CACHE_SIZE
    /\ Len(cleanCacheAt(audioCache, MAX_CACHE_SIZE)) < MAX_CACHE_SIZE
    /\ Len(CacheInsertAt(audioCache, MAX_CACHE_SIZE, SampleText(1), DEFAULT_LANGUAGE))
           <= MAX_CACHE_SIZE

\* C27: every GET /play request produces exactly one answer: of the events
\* upstream response started, upstream error and timeout only the first one
\* writes a status to the client, and no later event (the error that aborting
\* the connection on timeout raises, a timeout after streaming began) tries
\* to write a second one.
C27_PlayAnswersExactlyOnce ==
    \A cacheKey \in PlayKeys, upstream \in UpstreamOutcomes :
        LET play == PlayResponse(cacheKey, upstream)
        IN  /\ Len(play.sent) = 1
            /\ play.attempts = play.sent
            /\ ~play.uncaught

\* The results a registered job shows are those of a whole pass, or none.
NoPassHalfDone ==
    \A id \in DOMAIN preloadQueue :
        LET data == preloadQueue[id]
        IN  IF data.status = "completed"
            THEN Len(data.results) = Len(data.texts) /\ ~PassPending(id)
            ELSE data.results = <<>>

\* C28: every mutation of the cache is one whole step: the check, eviction
\* and insertion of one POST /audio, the pass of one preload job over all of
\* its texts, or a clear; no state lies between an eviction and its
\* insertion or shows a batch partly inserted.
C28_CacheMutationsAreAtomic ==
    /\ []NoPassHalfDone
    /\ [][ vars' = vars \/ audioCache' = audioCache \/
           \* POST /audio on a miss
           (/\ \E body \in AudioBodies :
                   /\ AudioResponse(body).code = 200
                   /\ ~AudioResponse(body).cached
                   /\ audioCache' = CacheSet(cleanCache(audioCache),
                                             generateCacheKey(body.text, LanguageOf(body)),
                                             CacheRecord(body.text, LanguageOf(body)))
            /\ UNCHANGED <<preloadQueue, immediates>>) \/
           \* the whole pass of the oldest scheduled job
           (/\ immediates # <<>>
            /\ \A job \in {Head(immediates)} :
                   /\ audioCache' = PassLoop(audioCache, job.texts, job.language,
                                             Len(job.texts)).cache
                   /\ job.preloadId \in DOMAIN preloadQueue =>
                          preloadQueue'[job.preloadId].status \in Terminal
            /\ immediates' = Tail(immediates)) \/
           \* POST /cache/clear
           (/\ audioCache' = <<>>
            /\ preloadQueue' = EmptyMap
            /\ UNCHANGED immediates) ]_vars

\* A pass that inserted several texts and evicted on the way is over, and its
\* job shows all of its results.
C28_Witness ==
    /\ Len(audioCache) = MAX_CACHE_SIZE
    /\ \E id \in DOMAIN preloadQueue :
          /\ preloadQueue[id].status = "completed"
          /\ Cardinality({ i \in 1..Len(preloadQueue[id].results) :
                               ~preloadQueue[id].results[i].cached }) >= 2
          /\ EvictedSince(id)

(***************************************************************************)
(* The variant of the service without GET /play                            *)
(***************************************************************************)

\* The variant names the external locator where server.js names /play/<key>.
\* Run side by side on the same requests, its registry is that of server.js
\* with the locator of each result in the place of the reference.
VariantData(preloadData) ==
    [preloadData EXCEPT !.results =
        [i \in 1..Len(preloadData.results) |->
            [text |-> preloadData.results[i].text,
             audioUrl |-> generateAudioUrl(preloadData.results[i].text, preloadData.language),
             cached |-> preloadData.results[i].cached]]]

VariantQueue(queue) == [id \in DOMAIN queue |-> VariantData(queue[id])]

\* What POST /audio of the variant answers in the current state.
AudioResponseVariant(body) ==
    LET text == body.text
        language == LanguageOf(body)
        cacheKey == generateCacheKey(text, language)
    IN  IF ~isValidChineseText(text)
        THEN [code |-> 400, error |-> "Invalid Chinese text provided"]
        ELSE IF language \notin SUPPORTED_LANGUAGES
        THEN [code |-> 400, error |-> "Unsupported language"]
        ELSE IF CacheHas(audioCache, cacheKey)
        THEN [code |-> 200, success |-> TRUE, text |-> text, language |-> language,
              audioUrl |-> CacheGet(audioCache, cacheKey).value.audioUrl, cached |-> TRUE]
        ELSE [code |-> 200, success |-> TRUE, text |-> text, language |-> language,
              audioUrl |-> generateAudioUrl(text, language), cached |-> FALSE]

\* POST /audio of the variant, on the state the two services share.
PostAudioVariant(body) ==
    LET text == body.text
        language == LanguageOf(body)
        cacheKey == generateCacheKey(text, language)
    IN  /\ audioCache' =
              IF ~isValidChineseText(text) THEN audioCache
              ELSE IF language \notin SUPPORTED_LANGUAGES THEN audioCache
              ELSE IF CacheHas(audioCache, cacheKey) THEN audioCache
              ELSE CacheSet(cleanCache(audioCache), cacheKey,
                            [text |-> text, language |-> language,
                             audioUrl |-> generateAudioUrl(text, language)])
        /\ VariantQueue(preloadQueue') = VariantQueue(preloadQueue)
        /\ UNCHANGED <<immediates, nextId, now>>

RECURSIVE PassLoopVariantNoClean(_, _, _, _)
\* A loop of the variant that stores without making room first
PassLoopVariantNoClean(cache, texts, language, n) ==
    IF n = 0
    THEN [cache |-> cache, results |-> <<>>, thrown |-> FALSE]
    ELSE LET prev == PassLoopVariantNoClean(cache, texts, language, n - 1)
             text == texts[n]
             cacheKey == generateCacheKey(text, language)
         IN  IF CacheHas(prev.cache, cacheKey)
             THEN [prev EXCEPT !.results = Append(@,
                      [text |-> text,
                       audioUrl |-> CacheGet(prev.cache, cacheKey).value.audioUrl,
                       cached |-> TRUE])]
             ELSE [prev EXCEPT
                      !.cache = CacheSet(@, cacheKey,
                                    [text |-> text, language |-> language,
                                     audioUrl |-> generateAudioUrl(text, language)]),
                      !.results = Append(@,
                          [text |-> text, audioUrl |-> generateAudioUrl(text, language),
                           cached |-> FALSE])]

RECURSIVE PassLoopVariant(_, _, _, _)
\* The loop of the variant's callback over the first n texts.
PassLoopVariant(cache, texts, language, n) ==
    IF n = 0
    THEN [cache |-> cache, results |-> <<>>, thrown |-> FALSE]
    ELSE LET prev == PassLoopVariant(cache, texts, language, n - 1)
             text == texts[n]
             cacheKey == generateCacheKey(text, language)
         IN  IF CacheHas(prev.cache, cacheKey)
             THEN [prev EXCEPT !.results = Append(@,
                      [text |-> text,
                       audioUrl |-> CacheGet(prev.cache, cacheKey).value.audioUrl,
                       cached |-> TRUE])]
             ELSE [prev EXCEPT
                      !.cache = CacheSet(cleanCache(@), cacheKey,
                                    [text |-> text, language |-> language,
                                     audioUrl |-> generateAudioUrl(text, language)]),
                      !.results = Append(@,
                          [text |-> text, audioUrl |-> generateAudioUrl(text, language),
                           cached |-> FALSE])]

\* POST /preload of the variant.
PostPreloadVariant(body) ==
    IF PreloadRejection(body) # ""
    THEN UNCHANGED vars
    ELSE LET texts == body.texts.items
             language == LanguageOf(body)
             preloadId == NewPreloadId
         IN  /\ nextId' = preloadId
             /\ VariantQueue(preloadQueue') =
                    [id \in DOMAIN preloadQueue \cup {preloadId} |->
                        IF id = preloadId
                        THEN NewPreloadData(preloadId, texts, language)
                        ELSE VariantQueue(preloadQueue)[id]]
             /\ immediates' = Append(immediates,
                    [preloadId |-> preloadId, texts |-> texts, language |-> language])
             /\ UNCHANGED <<audioCache, now>>

\* The oldest scheduled callback of the variant runs.
RunPassVariant ==
    /\ immediates # <<>>
    /\ LET job == Head(immediates)
           pass == PassLoopVariant(audioCache, job.texts, job.language, Len(job.texts))
       IN  /\ audioCache' = pass.cache
           /\ VariantQueue(preloadQueue') =
                  [id \in DOMAIN preloadQueue |->
                      IF id = job.preloadId
                      THEN [VariantQueue(preloadQueue)[id] EXCEPT
                               !.status = "completed",
                               !.results = pass.results,
                               !.processingDuration = now - preloadQueue[id].startTime]
                      ELSE VariantQueue(preloadQueue)[id]]
    /\ immediates' = Tail(immediates)
    /\ UNCHANGED <<nextId, now>>

\* GET /preload/:preloadId of the variant.
PreloadStatusResponseVariant(preloadId) ==
    IF preloadId \notin DOMAIN VariantQueue(preloadQueue)
    THEN [code |-> 404, error |-> "Preload request not found", preloadId |-> preloadId]
    ELSE LET preloadData == VariantQueue(preloadQueue)[preloadId] IN
         [code |-> 200, success |-> TRUE, preloadId |-> preloadId,
          status |-> preloadData.status, results |-> preloadData.results,
          textsCount |-> Len(preloadData.texts), language |-> preloadData.language,
          processingDuration |-> preloadData.processingDuration]

GetPreloadStatusVariant(preloadId) ==
    /\ VariantQueue(preloadQueue') =
           IF /\ preloadId \in DOMAIN preloadQueue
              /\ VariantQueue(preloadQueue)[preloadId].status \in {"completed", "failed"}
              /\ now - VariantQueue(preloadQueue)[preloadId].startTime > 300000
           THEN [id \in DOMAIN preloadQueue \ {preloadId} |-> VariantQueue(preloadQueue)[id]]
           ELSE VariantQueue(preloadQueue)
    /\ UNCHANGED <<audioCache, immediates, nextId, now>>

\* GET /cache/stats of the variant, as far as the registry goes.
CacheStatsActiveVariant == Cardinality(DOMAIN VariantQueue(preloadQueue))

\* POST /cache/clear of the variant.
PostCacheClearVariant ==
    /\ audioCache' = <<>>
    /\ VariantQueue(preloadQueue') = EmptyMap
    /\ UNCHANGED <<immediates, nextId, now>>

\* The setInterval sweep of the variant.
SweepVariant ==
    /\ VariantQueue(preloadQueue') =
           [id \in { i \in DOMAIN preloadQueue :
                        ~(now - VariantQueue(preloadQueue)[i].startTime > 300000) } |->
               VariantQueue(preloadQueue)[id]]
    /\ UNCHANGED <<audioCache, immediates, nextId, now>>

\* An answer with the locator value taken out
WithoutAudioUrl(answer) ==
    [f \in DOMAIN answer \ {"audioUrl"} |-> answer[f]]

\* The answers of the two services in the current state: the same codes,
\* fields and cached flags; the one names the reference to GET /play, the
\* other the external locator of the same text and language.
VariantAnswersAgree ==
    /\ \A body \in AudioBodies :
          LET a == AudioResponse(body)
              b == AudioResponseVariant(body)
          IN  /\ WithoutAudioUrl(a) = WithoutAudioUrl(b)
              /\ a.code = 200 =>
                     /\ a.audioUrl = PlayRef(generateCacheKey(body.text, LanguageOf(body)))
                     /\ b.audioUrl = generateAudioUrl(body.text, LanguageOf(body))
    /\ \A body \in PreloadBodies : PreloadResponse(body).code \in {200, 400}
    /\ \A preloadId \in PreloadIds :
          LET a == PreloadStatusResponse(preloadId)
              b == PreloadStatusResponseVariant(preloadId)
          IN  /\ a.code = b.code
              /\ a.code = 200 =>
                     /\ [a EXCEPT !.results = <<>>] = [b EXCEPT !.results = <<>>]
                     /\ Len(a.results) = Len(b.results)
                     /\ \A i \in 1..Len(a.results) :
                            /\ WithoutAudioUrl(a.results[i]) = WithoutAudioUrl(b.results[i])
                            /\ a.results[i].audioUrl =
                                   PlayRef(generateCacheKey(a.results[i].text, a.language))
                            /\ b.results[i].audioUrl =
                                   generateAudioUrl(b.results[i].text, b.language)
    /\ CacheStatsResponse.preloadQueue.active = CacheStatsActiveVariant

\* C29: server.js and the variant, run side by side on the same requests,
\* sweeps and passes, have the same cache contents and order and the same
\* registry in every step, and answer with the same status codes and cached
\* flags; they differ only in the form of the audioUrl value.
C29_VariantsAgree ==
    /\ []VariantAnswersAgree
    /\ [][ vars' = vars \/
           (/\ \A body \in AudioBodies : PostAudio(body) => PostAudioVariant(body)
            /\ \A body \in PreloadBodies : PostPreload(body) => PostPreloadVariant(body)
            /\ RunPass => RunPassVariant
            /\ \A preloadId \in PreloadIds :
                   GetPreloadStatus(preloadId) => GetPreloadStatusVariant(preloadId)
            /\ PostCacheClear => PostCacheClearVariant
            /\ Sweep => SweepVariant) ]_vars

\* A pass that found one text cached and stored another is over, its job is
\* in the registry, and POST /audio would be a hit for one body and a miss
\* for another.
C29_Witness ==
    /\ \E id \in DOMAIN preloadQueue :
          /\ preloadQueue[id].status = "completed"
          /\ \E i, j \in 1..Len(preloadQueue[id].results) :
                 /\ preloadQueue[id].results[i].cached
                 /\ ~preloadQueue[id].results[j].cached
          /\ PreloadStatusResponseVariant(id).results[1].audioUrl.tl = preloadQueue[id].language
          /\ PreloadStatusResponse(id).results[1].audioUrl[1] = "/play/"
    /\ \E body \in AudioBodies :
          AudioResponseVariant(body).code = 200 /\ AudioResponseVariant(body).cached
    /\ \E body \in AudioBodies :
          AudioResponseVariant(body).code = 200 /\ ~AudioResponseVariant(body).cached

(***************************************************************************)
(* The service with a full cache                                           *)
(***************************************************************************)

\* The cache after MAX_CACHE_SIZE requests POST /audio, each a miss: the first
\* for NiHao, the others for texts no later request names.
WarmCache ==
    [i \in 1..MAX_CACHE_SIZE |->
        LET text == IF i = 1 THEN NiHao ELSE SampleText(i)
        IN  [key |-> generateCacheKey(text, DEFAULT_LANGUAGE),
             value |-> CacheRecord(text, DEFAULT_LANGUAGE)]]

WarmInit ==
    /\ audioCache = WarmCache
    /\ preloadQueue = EmptyMap
    /\ immediates = <<>>
    /\ nextId = 0
    /\ now = 0

WarmSpec == WarmInit /\ [][Next]_vars

\* C30: every reference to GET /play is valid when it is issued: the key of
\* a successful POST /audio answer is cached when the answer is produced, and
\* in the step in which a preload job becomes completed every key its results
\* name is cached (the batches are no longer than what an eviction leaves).
C30_ReferencesValidWhenIssued ==
    [][ vars' = vars \/
           (/\ \A body \in AudioBodies :
                   (PostAudio(body) /\ AudioResponse(body).code = 200) =>
                       CacheHas(audioCache', generateCacheKey(body.text, LanguageOf(body)))
            /\ \A id \in DOMAIN preloadQueue :
                   (/\ id \in DOMAIN preloadQueue'
                    /\ Len(preloadQueue[id].texts) <= MAX_CACHE_SIZE - EntriesToRemove
                    /\ preloadQueue[id].status = "processing"
                    /\ preloadQueue'[id].status = "completed") =>
                       ResultKeys(preloadQueue'[id]) \subseteq CacheKeys(audioCache')) ]_vars

====
